---- MODULE Spec2Model ----
(***************************************************************************)
(* Model of pyanaconda/ui/gui/spokes/__init__.py: the Spoke base classes   *)
(* (Spoke, StandaloneSpoke, NormalSpoke, PersonalizationSpoke).            *)
(*                                                                         *)
(* Five specifications share the module:                                   *)
(*   Spec            NormalSpoke.on_back_clicked on the display thread,    *)
(*                   interleaved with the check threads it starts;         *)
(*   FairSpec        Spec with the scheduler's fairness (liveness);        *)
(*   StandaloneSpec  the flow of StandaloneSpoke screens and their         *)
(*                   continue / quit events;                               *)
(*   ConstructSpec   the constructors of the four classes;                 *)
(*   DiscoverSpec    collect_spokes over the classes of the spokes modules.*)
(***************************************************************************)
EXTENDS FiniteSets, Integers, Naturals, Sequences, TLC

\* Python's None where a screen or a Thread object is expected (both are
\* numbered from 1).
None == 0

\* Python's None as a title: no title is a sequence of one-character strings
\* holding this element.
NoTitle == <<"None">>

(***************************************************************************)
(* Bounds of the model.                                                    *)
(***************************************************************************)
\* number of Thread objects on_back_clicked may create in one behaviour
MaxThreads == 3
\* units of work an overridden check() may do before returning on its own
MaxWork == 1

(***************************************************************************)
(* Strings are sequences of one-character strings.                         *)
(***************************************************************************)
Space == " "
Tab == "\t"

\* Mutant: the title is used as it is.
replace_space_nothing(s) == s

\* str.replace(" ", ""): drops every occurrence of the space character, and
\* of no other character.
RECURSIVE replace_space(_)
replace_space(s) ==
    IF s = <<>> THEN <<>>
    ELSE IF Head(s) = Space THEN replace_space(Tail(s))
         ELSE <<Head(s)>> \o replace_space(Tail(s))

\* "Ana" + self.title.replace(" ", "") + "Check"
threadName(title) ==
    <<"A", "n", "a">> \o replace_space(title) \o <<"C", "h", "e", "c", "k">>

\* The titles the NormalSpoke subclasses of the model declare; None is the
\* class default of Spoke.title.
Titles ==
    { <<"F", "o">>, <<"F", " ", "o">>, <<"F", "\t", "o">>, <<"B">> }

TitleValues == Titles \cup {NoTitle}

Names == { threadName(t) : t \in Titles }

\* The NormalSpoke instances of the model.
Screens == {1, 2}

ThreadIds == 1 .. MaxThreads

\* A check() that only ever returns by observing the kill flag.
Endless == -1

WorkValues == (0 .. MaxWork) \cup {Endless}

(***************************************************************************)
(* The classes and their constructors.                                     *)
(***************************************************************************)
\* The four classes of the file, and a subclass of each that overrides
\* nothing but class attributes.
BaseClasses == {"Spoke", "StandaloneSpoke", "NormalSpoke", "PersonalizationSpoke"}

SubClasses == {"SpokeSub", "StandaloneSub", "NormalSub", "PersonalizationSub"}

Classes == BaseClasses \cup SubClasses

\* The class whose __init__ runs for an instance of class c.
InitOf(c) ==
    CASE c \in {"Spoke", "SpokeSub"} -> "Spoke"
      [] c \in {"StandaloneSpoke", "StandaloneSub"} -> "StandaloneSpoke"
      [] c \in {"NormalSpoke", "NormalSub"} -> "NormalSpoke"
      [] c \in {"PersonalizationSpoke", "PersonalizationSub"} -> "PersonalizationSpoke"

\* The hubs of the flow, in the order the flow visits them.
Hubs == <<1, 2>>

HubSet == {Hubs[i] : i \in 1 .. Len(Hubs)}

\* The values preForHub / postForHub take: a hub class or None.
HubRefs == HubSet \cup {None}

\* Truth value of a preForHub / postForHub attribute: None is false, a class
\* is true.
Truthy(v) == v # None

\* An instance attribute that was never assigned.
Unset == -1

\* The object __init__ receives: its class, its class attributes, and no
\* instance attribute yet.
NewObject(c, pre, post) ==
    [class |-> c, preForHub |-> pre, postForHub |-> post, raised |-> "no",
     data |-> Unset, devicetree |-> Unset, payload |-> Unset,
     instclass |-> Unset, selector |-> Unset]

Raise(self, exc) == [self EXCEPT !.raised = exc]

\* UIObject.__init__(self, data): keeps the data it is given.
UIObject___init__(self, data) == [self EXCEPT !.data = data]

\* Mutant: the abstract-class test compares against no class.
Spoke___init___noguard(self, data, devicetree, payload, instclass) ==
    [UIObject___init__(self, data) EXCEPT !.devicetree = devicetree,
                                          !.payload = payload,
                                          !.instclass = instclass]

\* Spoke.__init__
Spoke___init__(self, data, devicetree, payload, instclass) ==
    IF self.class = "Spoke"
    THEN Raise(self, "TypeError")
    ELSE [UIObject___init__(self, data) EXCEPT !.devicetree = devicetree,
                                               !.payload = payload,
                                               !.instclass = instclass]

\* Mutant: "or" in place of "and" in the preForHub / postForHub test.
StandaloneSpoke___init___or(self, data, devicetree, payload, instclass) ==
    IF self.class = "StandaloneSpoke"
    THEN Raise(self, "TypeError")
    ELSE IF Truthy(self.preForHub) \/ Truthy(self.postForHub)
         THEN Raise(self, "AttributeError")
         ELSE Spoke___init__(self, data, devicetree, payload, instclass)

\* StandaloneSpoke.__init__
StandaloneSpoke___init__(self, data, devicetree, payload, instclass) ==
    IF self.class = "StandaloneSpoke"
    THEN Raise(self, "TypeError")
    ELSE IF Truthy(self.preForHub) /\ Truthy(self.postForHub)
         THEN Raise(self, "AttributeError")
         ELSE Spoke___init__(self, data, devicetree, payload, instclass)

\* NormalSpoke.__init__
NormalSpoke___init__(self, data, devicetree, payload, instclass) ==
    IF self.class = "NormalSpoke"
    THEN Raise(self, "TypeError")
    ELSE LET o == Spoke___init__(self, data, devicetree, payload, instclass)
         IN  IF o.raised # "no" THEN o ELSE [o EXCEPT !.selector = None]

\* PersonalizationSpoke.__init__
PersonalizationSpoke___init__(self, data, devicetree, payload, instclass) ==
    IF self.class = "PersonalizationSpoke"
    THEN Raise(self, "TypeError")
    ELSE Spoke___init__(self, data, devicetree, payload, instclass)

\* cls(data, devicetree, payload, instclass)
Construct(self, data, devicetree, payload, instclass) ==
    CASE InitOf(self.class) = "Spoke" ->
             Spoke___init__(self, data, devicetree, payload, instclass)
      [] InitOf(self.class) = "StandaloneSpoke" ->
             StandaloneSpoke___init__(self, data, devicetree, payload, instclass)
      [] InitOf(self.class) = "NormalSpoke" ->
             NormalSpoke___init__(self, data, devicetree, payload, instclass)
      [] InitOf(self.class) = "PersonalizationSpoke" ->
             PersonalizationSpoke___init__(self, data, devicetree, payload, instclass)

\* The arguments the constructors are called with in the model.
ArgValues == {1, 2}

VARIABLES
    title,      \* title[s]: the title class attribute of screen s' class
    shown,      \* the screen whose window is shown, or None
    spokeLoop,  \* TRUE while the Gtk main loop entered for the spoke runs
    dpc,        \* where the display thread is inside on_back_clicked
    dself,      \* the screen on_back_clicked runs on
    thr,        \* on_back_clicked's local thr (a thread id or None)
    trace,      \* the calls made by the current / last on_back_clicked
    threads,    \* the Thread objects created so far
    nthreads,   \* how many Thread objects were created
    objs,       \* threadMgr: name -> thread id, or None
    cpc,        \* "idle", "call" before the constructor runs, "done" after
    cself,      \* the object a constructor is called on
    cargs,      \* the arguments of the call
    cresult,    \* the object after the call
    spokes,     \* the StandaloneSpoke subclasses, in registration order
    actions,    \* the actions of the flow still to run, the current one first
    current,    \* TRUE while the first of actions is instantiated and shown
    connected,  \* the handlers connected to the current window's signals
    sdata,      \* the shared data object: what each spoke's apply() wrote
    slog,       \* the calls made so far, in order
    sev,        \* the number of continue / quit events so far
    status,     \* "running", "quit", "finished" or "error"
    dtypes,     \* the classes of the spokes modules: module and category
    dloads,     \* dloads[m]: whether module m can be loaded
    drequest,   \* the category name collect_spokes is called with
    gpc,        \* "idle", "call" before collect_spokes runs, "done" after
    dresult     \* what collect_spokes returned

nvars == <<title, shown, spokeLoop, dpc, dself, thr, trace, threads, nthreads, objs>>

cvars == <<cpc, cself, cargs, cresult>>

svars == <<spokes, actions, current, connected, sdata, slog, sev, status>>

dvars == <<dtypes, dloads, drequest, gpc, dresult>>

vars == <<nvars, cvars, svars, dvars>>

\* Mutant: the new Thread object is born with the kill flag set.
Thread_killed(name, target, work) ==
    [name |-> name, target |-> target, state |-> "initial", kill |-> TRUE,
     work |-> work]

\* threading.Thread(name=threadName, target=self.check): named, not started,
\* and without a kill attribute.
Thread(name, target, work) ==
    [name |-> name, target |-> target, state |-> "initial", kill |-> FALSE,
     work |-> work]

NoThread == [name |-> <<>>, target |-> None, state |-> "none", kill |-> FALSE,
             work |-> 0]

is_alive(t) == threads[t].state = "started"

\* Mutant: completed turns true once a check() of the spoke has run to its end.
completed_after_check(s) ==
    \E t \in ThreadIds : threads[t].target = s /\ threads[t].state = "stopped"

\* Spoke.completed of screen s (NormalSpoke does not override it)
completed(s) == FALSE

\* Mutant: ready is false while a check() of the spoke runs.
ready_unless_checking(s) ==
    ~\E t \in ThreadIds : threads[t].target = s /\ threads[t].state = "started"

\* NormalSpoke.ready of screen s
ready(s) == TRUE

\* threadMgr.get(name): the object registered under name, None if absent.
threadMgr_get(name) == objs[name]

\* threadMgr.add(obj): registers obj under obj.name and starts it.
threadMgr_add(t, obj) ==
    /\ threads' = [threads EXCEPT ![t] = [obj EXCEPT !.state = "started"]]
    /\ objs' = [objs EXCEPT ![obj.name] = t]

\* events of one behaviour (continue and quit clicks)
MaxEvents == 5

\* the default of StandaloneSpoke.priority
DefaultPriority == 100

\* The StandaloneSpoke subclasses of the model.
SpokeIds == 1 .. 3

Priorities == {0, DefaultPriority}

\* What the user can have selected on a screen when Continue is clicked.
Selections == {1, 2}

(***************************************************************************)
(* collect_spokes: the discovery of the spokes of a category.              *)
(***************************************************************************)
\* The modules of the spokes package and the classes found in them.
ModuleIds == {1, 2}

TypeIds == 1 .. 3

\* The category classes and their __name__; two of them share a name.
CategoryName == <<"HubA", "HubB", "HubA">>

CategoryIds == 1 .. Len(CategoryName)

\* The category attribute of a class: a category class, None, or no such
\* attribute at all (Unset).
CategoryValues == CategoryIds \cup {None, Unset}

\* The names collect_spokes is asked for.
Identifiers == {"HubA", "HubB", "HubC"}

hasattr_category(obj) == obj.category # Unset

\* Mutant: the predicate does not compare the category's name.
spoke_pred_any_category(obj, category) ==
    /\ hasattr_category(obj)
    /\ obj.category # None

\* lambda obj: hasattr(obj, "category") and obj.category != None
\*             and obj.category.__name__ == category
spoke_pred(obj, category) ==
    /\ hasattr_category(obj)
    /\ obj.category # None
    /\ CategoryName[obj.category] = category

\* The classes of module m, in the order they are found.
Members(m) == SelectSeq([i \in TypeIds |-> i], LAMBDA i : dtypes[i].module = m)

\* Mutant: a module that fails to load ends the scan with its error.
collect_abort(pred) ==
    IF \E m \in ModuleIds : ~dloads[m]
    THEN [raised |-> TRUE, found |-> <<>>]
    ELSE [raised |-> FALSE,
          found |-> SelectSeq(Members(1) \o Members(2), LAMBDA i : pred[i])]

\* collect("spokes", pred): the modules are scanned in turn, a module that
\* fails to load is skipped, and the classes of a loaded module that
\* satisfy pred are returned.
collect(pred) ==
    [raised |-> FALSE,
     found |-> SelectSeq(Members(1), LAMBDA i : dloads[1] /\ pred[i])
               \o SelectSeq(Members(2), LAMBDA i : dloads[2] /\ pred[i])]

\* collect_spokes(category)
collect_spokes(category) ==
    collect([i \in TypeIds |-> spoke_pred(dtypes[i], category)])

\* The discovery part at rest.
DIdle ==
    /\ dtypes = [i \in TypeIds |-> [module |-> 1, category |-> None]]
    /\ dloads = [m \in ModuleIds |-> TRUE]
    /\ drequest = "HubA"
    /\ gpc = "idle"
    /\ dresult = [raised |-> FALSE, found |-> <<>>]

\* The StandaloneSpoke part at rest.
SIdle ==
    /\ spokes = [i \in SpokeIds |-> [preForHub |-> None, postForHub |-> None,
                                     priority |-> DefaultPriority, apply |-> FALSE]]
    /\ actions = <<>>
    /\ current = FALSE
    /\ connected = <<>>
    /\ sdata = [i \in SpokeIds |-> Unset]
    /\ slog = <<>>
    /\ sev = 0
    /\ status = "idle"

NInit ==
    /\ title \in [Screens -> TitleValues]
    /\ shown = None
    /\ spokeLoop = FALSE
    /\ dpc = "idle"
    /\ dself = None
    /\ thr = None
    /\ trace = <<>>
    /\ threads = [t \in ThreadIds |-> NoThread]
    /\ nthreads = 0
    /\ objs = [n \in Names |-> None]

\* The constructor part at rest.
CIdle ==
    /\ cpc = "idle"
    /\ cself = NewObject("Spoke", None, None)
    /\ cargs = [data |-> 1, devicetree |-> 1, payload |-> 1, instclass |-> 1]
    /\ cresult = cself

\* The NormalSpoke part at rest.
NIdle ==
    /\ title = [s \in Screens |-> NoTitle]
    /\ shown = None
    /\ spokeLoop = FALSE
    /\ dpc = "idle"
    /\ dself = None
    /\ thr = None
    /\ trace = <<>>
    /\ threads = [t \in ThreadIds |-> NoThread]
    /\ nthreads = 0
    /\ objs = [n \in Names |-> None]

\* The hub shows the spoke the user selected and enters a main loop for it.
Hub_show_spoke(s) ==
    /\ dpc = "idle"
    /\ shown = None
    /\ nthreads < MaxThreads
    /\ shown' = s
    /\ spokeLoop' = TRUE
    /\ UNCHANGED <<title, dpc, dself, thr, trace, threads, nthreads, objs, cvars, svars, dvars>>

\* The back button is clicked: on_back_clicked starts, self.window.hide().
on_back_clicked_hide(s) ==
    /\ dpc = "idle"
    /\ shown = s
    /\ shown' = None
    /\ dself' = s
    /\ thr' = None
    /\ trace' = <<"hide">>
    /\ dpc' = "main_quit"
    /\ UNCHANGED <<title, spokeLoop, threads, nthreads, objs, cvars, svars, dvars>>

\* Mutant: the handler goes on to the lookup without quitting the main loop.
on_back_clicked_main_quit_skipped ==
    /\ dpc = "main_quit"
    /\ dpc' = "get"
    /\ UNCHANGED <<title, shown, spokeLoop, dself, thr, trace, threads, nthreads, objs, cvars, svars, dvars>>

\* Gtk.main_quit()
on_back_clicked_main_quit ==
    /\ dpc = "main_quit"
    /\ spokeLoop' = FALSE
    /\ trace' = Append(trace, "main_quit")
    /\ dpc' = "get"
    /\ UNCHANGED <<title, shown, dself, thr, threads, nthreads, objs, cvars, svars, dvars>>

\* threadName = "Ana" + self.title.replace(" ", "") + "Check"
\* thr = threadMgr.get(threadName); a title of None has no replace().
on_back_clicked_get ==
    /\ dpc = "get"
    /\ IF title[dself] = NoTitle
       THEN /\ trace' = Append(trace, "AttributeError")
            /\ dpc' = "idle"
            /\ thr' = thr
       ELSE /\ thr' = threadMgr_get(threadName(title[dself]))
            /\ trace' = Append(trace, "get")
            /\ dpc' = IF thr' # None THEN "kill" ELSE "add"
    /\ UNCHANGED <<title, shown, spokeLoop, dself, threads, nthreads, objs, cvars, svars, dvars>>

\* Mutant: the kill step records itself but leaves the flag alone.
on_back_clicked_kill_noflag ==
    /\ dpc = "kill"
    /\ trace' = Append(trace, "kill")
    /\ dpc' = "join"
    /\ UNCHANGED <<title, shown, spokeLoop, dself, thr, threads, nthreads, objs, cvars, svars, dvars>>

\* Mutant: the kill step stops the thread by force besides setting the flag.
on_back_clicked_kill_forced ==
    /\ dpc = "kill"
    /\ threads' = [threads EXCEPT ![thr].kill = TRUE, ![thr].state = "stopped"]
    /\ trace' = Append(trace, "kill")
    /\ dpc' = "join"
    /\ UNCHANGED <<title, shown, spokeLoop, dself, thr, nthreads, objs, cvars, svars, dvars>>

\* thr.kill = True
on_back_clicked_kill ==
    /\ dpc = "kill"
    /\ threads' = [threads EXCEPT ![thr].kill = TRUE]
    /\ trace' = Append(trace, "kill")
    /\ dpc' = "join"
    /\ UNCHANGED <<title, shown, spokeLoop, dself, thr, nthreads, objs, cvars, svars, dvars>>

\* Mutant: join() returns at once, whether or not thr is alive.
on_back_clicked_join_nowait ==
    /\ dpc = "join"
    /\ trace' = Append(trace, "join")
    /\ dpc' = "add"
    /\ UNCHANGED <<title, shown, spokeLoop, dself, thr, threads, nthreads, objs, cvars, svars, dvars>>

\* thr.join(): returns once thr is no longer alive.
on_back_clicked_join ==
    /\ dpc = "join"
    /\ ~is_alive(thr)
    /\ trace' = Append(trace, "join")
    /\ dpc' = "add"
    /\ UNCHANGED <<title, shown, spokeLoop, dself, thr, threads, nthreads, objs, cvars, svars, dvars>>

\* Mutant: the new thread is started in an else branch of "if thr:".
on_back_clicked_add_else ==
    /\ dpc = "add"
    /\ IF thr # None
       THEN /\ trace' = Append(trace, "return")
            /\ UNCHANGED <<threads, nthreads, objs>>
       ELSE /\ nthreads' = nthreads + 1
            /\ \E w \in WorkValues :
                 threadMgr_add(nthreads', Thread(threadName(title[dself]), dself, w))
            /\ trace' = Append(trace, "add")
    /\ dpc' = "idle"
    /\ UNCHANGED <<title, shown, spokeLoop, dself, thr, cvars, svars, dvars>>

\* threadMgr.add(Thread(name=threadName, target=self.check))
on_back_clicked_add ==
    /\ dpc = "add"
    /\ nthreads' = nthreads + 1
    /\ \E w \in WorkValues :
         threadMgr_add(nthreads', Thread(threadName(title[dself]), dself, w))
    /\ trace' = Append(trace, "add")
    /\ dpc' = "idle"
    /\ UNCHANGED <<title, shown, spokeLoop, dself, thr, cvars, svars, dvars>>

\* check() running in its thread: one unit of work, the kill flag not set.
check_work(t) ==
    /\ is_alive(t)
    /\ ~threads[t].kill
    /\ threads[t].work > 0
    /\ threads' = [threads EXCEPT ![t].work = @ - 1]
    /\ UNCHANGED <<title, shown, spokeLoop, dpc, dself, thr, trace, nthreads, objs, cvars, svars, dvars>>

\* check() returns on its own, its work done (the base check() is "pass").
check_return(t) ==
    /\ is_alive(t)
    /\ threads[t].work = 0
    /\ threads' = [threads EXCEPT ![t].state = "stopped"]
    /\ UNCHANGED <<title, shown, spokeLoop, dpc, dself, thr, trace, nthreads, objs, cvars, svars, dvars>>

\* Mutant: a check() that never looks at the kill flag.
check_killed_nopoll(t) ==
    /\ FALSE
    /\ UNCHANGED vars

\* check() polls the kill flag, finds it set and returns early.
check_killed(t) ==
    /\ is_alive(t)
    /\ threads[t].kill
    /\ threads[t].work # 0
    /\ threads' = [threads EXCEPT ![t].state = "stopped"]
    /\ UNCHANGED <<title, shown, spokeLoop, dpc, dself, thr, trace, nthreads, objs, cvars, svars, dvars>>

DisplayStep ==
    \/ on_back_clicked_main_quit
    \/ on_back_clicked_get
    \/ on_back_clicked_kill
    \/ on_back_clicked_join
    \/ on_back_clicked_add

Next ==
    \/ \E s \in Screens : Hub_show_spoke(s)
    \/ \E s \in Screens : on_back_clicked_hide(s)
    \/ on_back_clicked_main_quit
    \/ on_back_clicked_get
    \/ on_back_clicked_kill
    \/ on_back_clicked_join
    \/ on_back_clicked_add
    \/ \E t \in ThreadIds : check_work(t)
    \/ \E t \in ThreadIds : check_return(t)
    \/ \E t \in ThreadIds : check_killed(t)

Init == NInit /\ CIdle /\ SIdle /\ DIdle

Spec == Init /\ [][Next]_vars

CheckStep(t) == check_work(t) \/ check_return(t) \/ check_killed(t)

\* The display thread runs a handler to its end unless it blocks, and the
\* scheduler gives every started thread its turn.
FairSpec ==
    /\ Spec
    /\ WF_vars(DisplayStep)
    /\ \A t \in ThreadIds : WF_vars(CheckStep(t))

(***************************************************************************)
(* NormalSpoke: the claims.                                                *)
(***************************************************************************)
Last(s) == s[Len(s)]

\* The last on_back_clicked call returned (it did not raise).
Returned == dpc = "idle" /\ trace # <<>> /\ Last(trace) # "AttributeError"

AliveUnder(n) == {t \in ThreadIds : threads[t].name = n /\ is_alive(t)}

\* C1: in every reachable state, at most one check thread registered under
\* a screen's derived name is alive.
C1_AtMostOneAlive ==
    \A s \in Screens :
        title[s] # NoTitle => Cardinality(AliveUnder(threadName(title[s]))) <= 1

\* C1 witness: on_back_clicked found a check thread in flight, killed and
\* joined it, and the thread it started is alive.
C1_Witness ==
    /\ Returned
    /\ thr # None
    /\ threads[thr].state = "stopped"
    /\ threads[thr].work # 0
    /\ AliveUnder(threadName(title[dself])) # {}

\* C2: when on_back_clicked finds a thread under the name, it sets the kill
\* flag, then joins, then adds: the flag is set while it joins and when join
\* has returned, the old thread has exited before the new one is registered,
\* and the new thread runs only with the old one stopped.
C2_KillJoinAdd ==
    thr # None =>
        /\ dpc = "join" => threads[thr].kill
        /\ dpc = "add" =>
               /\ trace = <<"hide", "main_quit", "get", "kill", "join">>
               /\ threads[thr].kill
               /\ ~is_alive(thr)
               /\ objs[threads[thr].name] = thr
        /\ Returned =>
               /\ trace = <<"hide", "main_quit", "get", "kill", "join", "add">>
               /\ threads[thr].kill
               /\ ~is_alive(thr)
               /\ objs[threads[thr].name] # thr
               /\ threads[objs[threads[thr].name]].name = threads[thr].name

\* C2 witness: the thread found was still running its check() when the kill
\* flag was set; it is joined and the new thread is registered and running.
C2_Witness ==
    /\ Returned
    /\ thr # None
    /\ threads[thr].work = Endless
    /\ is_alive(objs[threads[thr].name])

\* C3: once on_back_clicked has returned, the thread registered under the
\* screen's name is the one this call created, it is started and runs this
\* screen's check(), it is the only object registered under the name; when
\* no thread was registered beforehand the call made no kill and no join.
C3_FreshWorker ==
    Returned =>
        LET n == threadName(title[dself]) IN
        /\ Last(trace) = "add"
        /\ objs[n] = nthreads
        /\ threads[nthreads].name = n
        /\ threads[nthreads].target = dself
        /\ threads[nthreads].state \in {"started", "stopped"}
        /\ {t \in ThreadIds : threads[t].name = n /\ objs[n] = t} = {nthreads}
        /\ thr = None =>
               /\ trace = <<"hide", "main_quit", "get", "add">>
               /\ \A t \in ThreadIds : threads[t].name = n => ~threads[t].kill

\* C3 witness: a call that found nothing registered under its name has
\* returned, while a thread of another name exists.
C3_Witness ==
    /\ Returned
    /\ thr = None
    /\ nthreads >= 2
    /\ is_alive(nthreads)

\* C7: on_back_clicked always comes to its end; the display thread does not
\* stay in join() forever, however the check thread's steps interleave.
C7_BackClickedEnds ==
    /\ (dpc # "idle") ~> (dpc = "idle")
    /\ (dpc = "join") ~> Returned

\* C7 witness: the display thread waits in join() for a check() that is
\* still running and returns only when it sees the kill flag.
C7_Witness ==
    /\ dpc = "join"
    /\ is_alive(thr)
    /\ threads[thr].work = Endless

\* C8: a step of the display thread changes a Thread object only by setting
\* the kill flag of the thread it looked up, at the kill step; a thread stops
\* being alive only in a step that is not the display thread's; a kill flag
\* that is set stays set.
C8_CooperativeOnly ==
    [][\A t \in ThreadIds :
          /\ threads[t].kill => threads'[t].kill
          /\ (is_alive(t) /\ threads'[t].state # "started") =>
                 (dpc' = dpc /\ trace' = trace /\ thr' = thr)
          /\ (dpc' # dpc /\ threads[t].state # "none") =>
                 \/ threads'[t] = threads[t]
                 \/ /\ dpc = "kill"
                    /\ t = thr
                    /\ threads'[t] = [threads[t] EXCEPT !.kill = TRUE]
      ]_vars

\* C8 witness: the kill flag of a thread is set and the thread is still
\* alive while the display thread waits for it.
C8_Witness ==
    /\ dpc = "join"
    /\ threads[thr].kill
    /\ is_alive(thr)
    /\ threads[thr].work = 1

\* C12: completed is false and ready is true of every NormalSpoke of the
\* model in every reachable state, whatever back-navigation events and
\* check() runs have happened.
C12_Defaults ==
    \A s \in Screens : completed(s) = FALSE /\ ready(s) = TRUE

\* C12 witness: a check() of the screen has run to its end, another was
\* started by a later back-navigation, and the two values are the defaults.
C12_Witness ==
    /\ Returned
    /\ \E t \in ThreadIds : threads[t].target = dself /\ threads[t].state = "stopped"
    /\ is_alive(nthreads)
    /\ threads[nthreads].target = dself
    /\ ~completed(dself)
    /\ ready(dself)

\* C14: inside one on_back_clicked the window is hidden first and the main
\* loop is quit second; the lookup, kill, join and add steps happen only
\* after both, with the window hidden and the spoke's main loop quit.
C14_HideQuitFirst ==
    /\ dpc = "main_quit" => trace = <<"hide">> /\ shown = None
    /\ dpc \in {"get", "kill", "join", "add"} =>
           /\ Len(trace) >= 2
           /\ shown = None
           /\ ~spokeLoop
    /\ \A k \in 1 .. Len(trace) :
           trace[k] \in {"get", "kill", "join", "add", "AttributeError"} =>
               /\ k > 2
               /\ trace[1] = "hide"
               /\ trace[2] = "main_quit"

\* C14 witness: the display thread waits in join() for a running thread,
\* after the hide and the main_quit of the same call.
C14_Witness ==
    /\ dpc = "join"
    /\ is_alive(thr)
    /\ trace = <<"hide", "main_quit", "get", "kill">>

Prefix == <<"A", "n", "a">>

Suffix == <<"C", "h", "e", "c", "k">>

\* The title without its space characters.
WithoutSpaces(t) == SelectSeq(t, LAMBDA c : c # Space)

\* The title without its whitespace characters.
WithoutWhitespace(t) == SelectSeq(t, LAMBDA c : c \notin {Space, Tab})

\* C15 as stated: the name of every thread is the prefix, the title of its
\* screen with every whitespace character removed, and the suffix.
C15_Original ==
    \A t \in ThreadIds :
        threads[t].state # "none" =>
            threads[t].name
                = Prefix \o WithoutWhitespace(title[threads[t].target]) \o Suffix

\* C15: the name of every thread is the prefix, the title of its screen with
\* every space character (and no other character) removed, and the suffix;
\* the thread on_back_clicked looks up has the name the new thread is
\* registered under; titles that differ only in spaces give the same name.
C15_NameFromTitle ==
    /\ \A t \in ThreadIds :
           threads[t].state # "none" =>
               /\ threads[t].name
                      = Prefix \o WithoutSpaces(title[threads[t].target]) \o Suffix
               /\ objs[threads[t].name] # None
    /\ (thr # None /\ dpc # "idle") =>
           threads[thr].name = Prefix \o WithoutSpaces(title[dself]) \o Suffix
    /\ Returned => threads[nthreads].name
                      = Prefix \o WithoutSpaces(title[dself]) \o Suffix
    /\ \A s1, s2 \in Screens :
           (/\ title[s1] # NoTitle
            /\ title[s2] # NoTitle
            /\ WithoutSpaces(title[s1]) = WithoutSpaces(title[s2]))
           => threadName(title[s1]) = threadName(title[s2])
    /\ threadName(<<"F", "o", "o">>)
           = <<"A", "n", "a", "F", "o", "o", "C", "h", "e", "c", "k">>

\* C15 witness: a screen whose title holds a space found the thread that was
\* registered under the same name and registered its own under it.
C15_Witness ==
    /\ Returned
    /\ thr # None
    /\ title[dself] = <<"F", " ", "o">>
    /\ threads[nthreads].name = <<"A", "n", "a", "F", "o", "C", "h", "e", "c", "k">>

\* C16: the thread an on_back_clicked call looks up, and then kills, joins
\* and replaces, runs the check() of the screen the call is made on, and a
\* kill flag is set only on a thread whose own screen asked for it.
C16_OwnWorkerOnly ==
    thr # None => threads[thr].target = dself

\* C18: a thread whose kill flag is set is the one the display thread looked
\* up and is joining, or has already been replaced in threadMgr; the thread
\* registered by an on_back_clicked call has its kill flag unset.
C18_KillNotInherited ==
    /\ \A t \in ThreadIds :
           threads[t].kill =>
               /\ threads[t].state # "none"
               /\ \/ objs[threads[t].name] # t
                  \/ thr = t /\ dpc \in {"join", "add"}
    /\ Returned => ~threads[nthreads].kill

\* C18 witness: the thread found was killed and joined, and the thread that
\* replaced it is alive with its kill flag unset.
C18_Witness ==
    /\ Returned
    /\ thr # None
    /\ threads[thr].kill
    /\ ~threads[nthreads].kill
    /\ is_alive(nthreads)
    /\ threads[nthreads].work = Endless

(***************************************************************************)
(* StandaloneSpoke: the flow of standalone screens around the hubs.        *)
(***************************************************************************)
\* A StandaloneSpoke subclass: its class attributes, and whether it
\* overrides apply().
SpokeClass == [preForHub : HubRefs, postForHub : HubRefs,
               priority : Priorities, apply : BOOLEAN]

HubItem(h) == [kind |-> "hub", id |-> h]

SpokeItem(i) == [kind |-> "spoke", id |-> i]

\* The spokes, in registration order, that are a pre (post) action of hub h.
PreFor(h) == SelectSeq([i \in SpokeIds |-> i], LAMBDA i : spokes[i].preForHub = h)

PostFor(h) == SelectSeq([i \in SpokeIds |-> i], LAMBDA i : spokes[i].postForHub = h)

\* sorted(..., key=priority): stable, lower priority first.
RECURSIVE Insert(_, _)
Insert(x, s) ==
    IF s = <<>> THEN <<x>>
    ELSE IF spokes[x].priority < spokes[Head(s)].priority
         THEN <<x>> \o s
         ELSE <<Head(s)>> \o Insert(x, Tail(s))

RECURSIVE SortByPriority(_)
SortByPriority(s) ==
    IF s = <<>> THEN <<>>
    ELSE Insert(s[Len(s)], SortByPriority(SubSeq(s, 1, Len(s) - 1)))

Items(s) == [k \in 1 .. Len(s) |-> SpokeItem(s[k])]

\* Mutant: the pre actions of the hubs are all run before the first hub.
RECURSIVE orderActionClasses_prefirst(_)
orderActionClasses_prefirst(h) ==
    IF h > Len(Hubs) THEN <<>>
    ELSE (IF h = 1
          THEN Items(SortByPriority(PreFor(Hubs[1]) \o PreFor(Hubs[2])))
          ELSE <<>>)
         \o <<HubItem(Hubs[h])>>
         \o Items(SortByPriority(PostFor(Hubs[h])))
         \o orderActionClasses_prefirst(h + 1)

\* The order of the flow, for the hubs from the h-th on: for each hub its pre
\* actions by priority, the hub, its post actions by priority.
RECURSIVE orderActionClasses(_)
orderActionClasses(h) ==
    IF h > Len(Hubs) THEN <<>>
    ELSE Items(SortByPriority(PreFor(Hubs[h])))
         \o <<HubItem(Hubs[h])>>
         \o Items(SortByPriority(PostFor(Hubs[h])))
         \o orderActionClasses(h + 1)

\* The state the handlers of the flow work on.
FlowState ==
    [actions |-> actions, current |-> current, connected |-> connected,
     data |-> sdata, log |-> slog, status |-> status, raised |-> FALSE]

Entry(ev, item, call) == [ev |-> ev, item |-> item, call |-> call]

Logged(st, ev, item, call) == [st EXCEPT !.log = Append(@, Entry(ev, item, call))]

\* Mutant: the quit event is connected like the continue event.
register_event_cb_quit_applies(event, cb) ==
    IF event = "continue"
    THEN <<[signal |-> "continue-clicked", handler |-> "_on_continue_clicked", cb |-> cb]>>
    ELSE IF event = "quit"
         THEN <<[signal |-> "quit-clicked", handler |-> "_on_continue_clicked", cb |-> cb]>>
         ELSE <<>>

\* StandaloneSpoke.register_event_cb(event, cb): the connections it makes.
register_event_cb(event, cb) ==
    IF event = "continue"
    THEN <<[signal |-> "continue-clicked", handler |-> "_on_continue_clicked", cb |-> cb]>>
    ELSE IF event = "quit"
         THEN <<[signal |-> "quit-clicked", handler |-> "cb", cb |-> cb]>>
         ELSE <<>>

\* The flow instantiates the first of st.actions and shows it: a spoke is
\* constructed and its continue and quit events are registered.
Show(st, ev) ==
    LET item == Head(st.actions) IN
    IF item.kind = "hub"
    THEN Logged([st EXCEPT !.current = TRUE, !.connected = <<>>], ev, item, "show")
    ELSE LET c == spokes[item.id]
             o == Construct(NewObject("StandaloneSub", c.preForHub, c.postForHub),
                            1, 1, 1, 1)
         IN  IF o.raised # "no"
             THEN Logged([st EXCEPT !.status = "error", !.raised = TRUE,
                                    !.current = FALSE, !.connected = <<>>],
                         ev, item, o.raised)
             ELSE Logged([st EXCEPT !.current = TRUE,
                                    !.connected = register_event_cb("continue", "advance")
                                                  \o register_event_cb("quit", "quit")
                                                  \o register_event_cb("help", "advance")],
                         ev, item, "show")

\* The flow's continue callback: the last action ends the flow, otherwise the
\* next action is instantiated and shown in place of the current one.
Advance(st, ev) ==
    IF Len(st.actions) = 1
    THEN [st EXCEPT !.status = "finished", !.current = FALSE, !.connected = <<>>,
                    !.actions = <<>>]
    ELSE Show([st EXCEPT !.actions = Tail(@)], ev)

\* The flow's quit callback.
Quit(st, ev) == [st EXCEPT !.status = "quit", !.current = FALSE, !.connected = <<>>]

\* cb()
CallCb(st, ev, item, cb) ==
    LET l == Logged(st, ev, item, cb) IN
    IF cb = "advance" THEN Advance(l, ev) ELSE Quit(l, ev)

\* self.apply(): the subclass writes the selections into the data object;
\* Spoke.apply raises NotImplementedError.
apply(st, ev, item, sel) ==
    IF spokes[item.id].apply
    THEN Logged([st EXCEPT !.data[item.id] = sel], ev, item, "apply")
    ELSE Logged([st EXCEPT !.raised = TRUE], ev, item, "NotImplementedError")

\* Mutant: the callback is called before apply().
on_continue_clicked_cb_first(st, ev, item, sel, cb) ==
    LET c == CallCb(st, ev, item, cb) IN
    IF c.raised THEN c ELSE apply(c, ev, item, sel)

\* Mutant: the callback is called and apply() is not.
on_continue_clicked_no_apply(st, ev, item, sel, cb) ==
    CallCb(st, ev, item, cb)

\* Mutant: an exception of apply() is swallowed and the callback is called.
on_continue_clicked_swallow(st, ev, item, sel, cb) ==
    CallCb([apply(st, ev, item, sel) EXCEPT !.raised = FALSE], ev, item, cb)

\* StandaloneSpoke._on_continue_clicked(cb)
on_continue_clicked(st, ev, item, sel, cb) ==
    LET a == apply(st, ev, item, sel) IN
    IF a.raised THEN a ELSE CallCb(a, ev, item, cb)

\* One connected handler runs.
RunHandler(st, ev, item, sel, h) ==
    IF h.handler = "_on_continue_clicked"
    THEN on_continue_clicked(st, ev, item, sel, h.cb)
    ELSE CallCb(st, ev, item, h.cb)

\* The window emits a signal: the handlers connected to it run in the order
\* they were connected; an exception ends the handler that raised it.
RECURSIVE Emit(_, _, _, _, _)
Emit(st, ev, item, sel, hs) ==
    IF hs = <<>> THEN st
    ELSE Emit([RunHandler(st, ev, item, sel, Head(hs)) EXCEPT !.raised = FALSE],
              ev, item, sel, Tail(hs))

Handlers(signal) == SelectSeq(connected, LAMBDA h : h.signal = signal)

Becomes(st) ==
    /\ actions' = st.actions
    /\ current' = st.current
    /\ connected' = st.connected
    /\ sdata' = st.data
    /\ slog' = st.log
    /\ status' = st.status

SInit ==
    /\ spokes \in [SpokeIds -> SpokeClass]
    /\ actions = orderActionClasses(1)
    /\ current = FALSE
    /\ connected = <<>>
    /\ sdata = [i \in SpokeIds |-> Unset]
    /\ slog = <<>>
    /\ sev = 0
    /\ status = "running"

\* The flow starts: its first action is instantiated and shown.
Flow_start ==
    /\ status = "running"
    /\ ~current
    /\ slog = <<>>
    /\ Becomes([Show(FlowState, 0) EXCEPT !.raised = FALSE])
    /\ UNCHANGED <<spokes, sev, nvars, cvars, dvars>>

\* The user clicks Continue on the standalone spoke shown.
continue_clicked ==
    /\ status = "running"
    /\ current
    /\ Head(actions).kind = "spoke"
    /\ sev < MaxEvents
    /\ sev' = sev + 1
    /\ \E sel \in Selections :
          Becomes(Emit(Logged(FlowState, sev', Head(actions), "continue-clicked"),
                       sev', Head(actions), sel, Handlers("continue-clicked")))
    /\ UNCHANGED <<spokes, nvars, cvars, dvars>>

\* The user clicks Quit on the standalone spoke shown.
quit_clicked ==
    /\ status = "running"
    /\ current
    /\ Head(actions).kind = "spoke"
    /\ sev < MaxEvents
    /\ sev' = sev + 1
    /\ Becomes(Emit(Logged(FlowState, sev', Head(actions), "quit-clicked"),
                    sev', Head(actions), 1, Handlers("quit-clicked")))
    /\ UNCHANGED <<spokes, nvars, cvars, dvars>>

\* The user leaves the hub shown: the flow goes on to the next action.
Hub_continue ==
    /\ status = "running"
    /\ current
    /\ Head(actions).kind = "hub"
    /\ sev < MaxEvents
    /\ sev' = sev + 1
    /\ Becomes([Advance(FlowState, sev') EXCEPT !.raised = FALSE])
    /\ UNCHANGED <<spokes, nvars, cvars, dvars>>

SNext ==
    \/ Flow_start
    \/ continue_clicked
    \/ quit_clicked
    \/ Hub_continue

StandaloneInit == SInit /\ NIdle /\ CIdle /\ DIdle

StandaloneSpec == StandaloneInit /\ [][SNext]_vars

(***************************************************************************)
(* StandaloneSpoke: the claims.                                            *)
(***************************************************************************)
LogIdx == 1 .. Len(slog)

\* C4: every continue-clicked event calls apply() first, and the continue
\* callback is called only right after the apply() of the same event on the
\* same spoke has returned, the data object holding what it wrote.
C4_ApplyBeforeCb ==
    \A k \in LogIdx :
        /\ slog[k].call = "continue-clicked" =>
               /\ k < Len(slog)
               /\ slog[k + 1].ev = slog[k].ev
               /\ slog[k + 1].item = slog[k].item
               /\ slog[k + 1].call \in {"apply", "NotImplementedError"}
        /\ slog[k].call = "advance" =>
               /\ k > 2
               /\ slog[k - 1] = Entry(slog[k].ev, slog[k].item, "apply")
               /\ slog[k - 2] = Entry(slog[k].ev, slog[k].item, "continue-clicked")
               /\ sdata[slog[k].item.id] # Unset

\* C4 witness: a continue event ran apply() and then the callback, and the
\* flow went on to show its next action.
C4_Witness ==
    \E k \in LogIdx :
        /\ slog[k].call = "advance"
        /\ k < Len(slog)
        /\ slog[k + 1].call = "show"
        /\ sdata[slog[k].item.id] = 2

\* C5: a quit-clicked event calls the registered callback and nothing else:
\* apply() is not called and the data object is left as it was.
C5_QuitNoApply ==
    [][(Len(slog') > Len(slog) /\ slog'[Len(slog) + 1].call = "quit-clicked") =>
          /\ sdata' = sdata
          /\ slog' = slog \o << Entry(sev', Head(actions), "quit-clicked"),
                                Entry(sev', Head(actions), "quit") >>
          /\ status' = "quit"
      ]_vars

\* C5 witness: the quit event fired on a spoke shown after an earlier spoke
\* had applied its selections.
C5_Witness ==
    /\ status = "quit"
    /\ \E i \in SpokeIds : sdata[i] # Unset
    /\ slog[Len(slog)].call = "quit"

\* C17: when apply() raises in a continue event, nothing else is called in
\* that event: no callback, no next action shown; the data object holds
\* nothing of the spoke, and the flow stays on the spoke, where only a new
\* click can follow.
C17_NoCbAfterFailedApply ==
    \A k \in LogIdx :
        slog[k].call = "NotImplementedError" =>
            /\ k > 1
            /\ slog[k - 1] = Entry(slog[k].ev, slog[k].item, "continue-clicked")
            /\ \A j \in LogIdx :
                   (slog[j].ev = slog[k].ev /\ slog[j].call # "show") =>
                       j \in {k - 1, k}
            /\ \A j \in LogIdx : (j > k /\ slog[j].call = "show") =>
                   slog[j].ev # slog[k].ev
            /\ sdata[slog[k].item.id] = Unset
            /\ k < Len(slog) =>
                   /\ slog[k + 1].item = slog[k].item
                   /\ slog[k + 1].call \in {"continue-clicked", "quit-clicked"}
            /\ k = Len(slog) =>
                   /\ status = "running"
                   /\ current
                   /\ Head(actions) = slog[k].item

\* C17 witness: after an earlier spoke applied and the flow went on, the
\* apply() of the spoke shown raised and the flow is still on that spoke.
C17_Witness ==
    /\ slog # <<>>
    /\ slog[Len(slog)].call = "NotImplementedError"
    /\ \E k \in LogIdx : slog[k].call = "advance"
    /\ status = "running"

HubPos(h) == CHOOSE p \in 1 .. Len(Hubs) : Hubs[p] = h

\* The place of an action in the flow: for each hub in turn its pre actions,
\* the hub, its post actions.
Rank(item) ==
    IF item.kind = "hub" THEN 3 * HubPos(item.id) + 1
    ELSE IF spokes[item.id].preForHub # None
         THEN 3 * HubPos(spokes[item.id].preForHub)
         ELSE 3 * HubPos(spokes[item.id].postForHub) + 2

\* Spoke i ran to completion before position l of the log: its apply()
\* returned and then its continue callback was called.
Completed(i, l) ==
    \E k \in 1 .. (l - 1) :
        /\ k + 1 < l
        /\ slog[k].item = SpokeItem(i)
        /\ slog[k].call = "apply"
        /\ slog[k + 1] = Entry(slog[k].ev, SpokeItem(i), "advance")

\* C6: whenever an action of the flow begins, every action begun before it
\* has run to completion and is not later in the order (pre actions of a
\* hub, the hub, its post actions, hub after hub), with priorities ascending
\* inside a group; and when a pre action of a hub begins, all post actions
\* of the hubs before it have run to completion.
C6_Sequencing ==
    \A l \in LogIdx :
        slog[l].call = "show" =>
            /\ \A k \in 1 .. (l - 1) :
                   slog[k].call = "show" =>
                       /\ Rank(slog[k].item) <= Rank(slog[l].item)
                       /\ (Rank(slog[k].item) = Rank(slog[l].item)
                           /\ slog[l].item.kind = "spoke") =>
                              spokes[slog[k].item.id].priority
                                  <= spokes[slog[l].item.id].priority
                       /\ slog[k].item.kind = "spoke" =>
                              Completed(slog[k].item.id, l)
            /\ (slog[l].item.kind = "spoke"
                /\ spokes[slog[l].item.id].preForHub # None) =>
                   \A i \in SpokeIds :
                       (/\ spokes[i].postForHub # None
                        /\ HubPos(spokes[i].postForHub)
                              < HubPos(spokes[slog[l].item.id].preForHub))
                       => Completed(i, l)

\* C6 witness: a post action of the first hub, registered after a pre action
\* of the second hub, has run to completion and that pre action is shown.
C6_Witness ==
    /\ status = "running"
    /\ current
    /\ Head(actions).kind = "spoke"
    /\ spokes[Head(actions).id].preForHub = Hubs[2]
    /\ \E i \in SpokeIds :
          /\ i > Head(actions).id
          /\ spokes[i].postForHub = Hubs[1]
          /\ spokes[i].priority = 0
          /\ spokes[Head(actions).id].priority = 0
          /\ Completed(i, Len(slog))

(***************************************************************************)
(* The constructors: every class of the model is constructed once, with    *)
(* every combination of class attributes and arguments.                    *)
(***************************************************************************)
CInit ==
    /\ \E c \in Classes, pre \in HubRefs, post \in HubRefs :
          /\ (c \notin {"StandaloneSub"} => pre = None /\ post = None)
          /\ cself = NewObject(c, pre, post)
    /\ cargs \in [data : ArgValues, devicetree : ArgValues,
                  payload : ArgValues, instclass : ArgValues]
    /\ cresult = cself
    /\ cpc = "call"

\* cls(data, devicetree, payload, instclass) is called.
construct ==
    /\ cpc = "call"
    /\ cpc' = "done"
    /\ cresult' = Construct(cself, cargs.data, cargs.devicetree, cargs.payload,
                            cargs.instclass)
    /\ UNCHANGED <<cself, cargs, nvars, svars, dvars>>

CNext == construct

ConstructInit == CInit /\ NIdle /\ SIdle /\ DIdle

ConstructSpec == ConstructInit /\ [][CNext]_vars

Constructed == cpc = "done"

Succeeded ==
    /\ cresult.raised = "no"
    /\ cresult.data = cargs.data
    /\ cresult.devicetree = cargs.devicetree
    /\ cresult.payload = cargs.payload
    /\ cresult.instclass = cargs.instclass

BothSet == Truthy(cself.preForHub) /\ Truthy(cself.postForHub)

\* C9 as stated: constructing one of the four classes itself fails with
\* TypeError, and constructing any subclass succeeds and stores the four
\* references.
C9_Original ==
    Constructed =>
        /\ cself.class \in BaseClasses => cresult.raised = "TypeError"
        /\ cself.class \in SubClasses => Succeeded

\* C9: constructing one of the four classes itself fails with TypeError and
\* stores nothing; constructing a subclass succeeds and stores the four
\* references, unless it is a StandaloneSpoke subclass with both preForHub
\* and postForHub set.
C9_AbstractGuard ==
    Constructed =>
        /\ cself.class \in BaseClasses =>
               /\ cresult.raised = "TypeError"
               /\ cresult = Raise(cself, "TypeError")
        /\ (cself.class \in SubClasses /\ ~(cself.class = "StandaloneSub" /\ BothSet))
               => Succeeded

\* C9 witness: a subclass of NormalSpoke was constructed and holds the
\* references it was given.
C9_Witness ==
    /\ Constructed
    /\ cself.class = "NormalSub"
    /\ Succeeded
    /\ cresult.selector = None

\* C10: constructing a StandaloneSpoke subclass fails with AttributeError
\* exactly when preForHub and postForHub are both set; otherwise it succeeds.
C10_PreXorPost ==
    (Constructed /\ cself.class = "StandaloneSub") =>
        /\ cresult.raised = "AttributeError" <=>
               (cself.preForHub # None /\ cself.postForHub # None)
        /\ ~(cself.preForHub # None /\ cself.postForHub # None) => Succeeded

\* C10 witness: a subclass with exactly one of the two set was constructed.
C10_Witness ==
    /\ Constructed
    /\ cself.class = "StandaloneSub"
    /\ cself.preForHub = None
    /\ cself.postForHub # None
    /\ cresult.raised = "no"

(***************************************************************************)
(* Discovery: collect_spokes is called once, for every assignment of       *)
(* classes to modules, of categories to classes, and every requested name. *)
(***************************************************************************)
DInit ==
    /\ dtypes \in [TypeIds -> [module : ModuleIds, category : CategoryValues]]
    /\ dloads \in [ModuleIds -> BOOLEAN]
    /\ drequest \in Identifiers
    /\ gpc = "call"
    /\ dresult = [raised |-> FALSE, found |-> <<>>]

\* collect_spokes(drequest) is called.
collect_spokes_call ==
    /\ gpc = "call"
    /\ gpc' = "done"
    /\ dresult' = collect_spokes(drequest)
    /\ UNCHANGED <<dtypes, dloads, drequest, nvars, cvars, svars>>

DNext == collect_spokes_call

DiscoverInit == DInit /\ NIdle /\ CIdle /\ SIdle

DiscoverSpec == DiscoverInit /\ [][DNext]_vars

Found == {dresult.found[k] : k \in 1 .. Len(dresult.found)}

\* The category classes whose name is the requested one.
Requested == {c \in CategoryIds : CategoryName[c] = drequest}

\* The classes of the modules that load.
Known == {i \in TypeIds : dloads[dtypes[i].module]}

\* C11: collect_spokes returns exactly the known classes whose category is a
\* category class of the requested name; a class without a category
\* attribute, with category None or with a category of another name is not
\* returned, and a name no category has gives nothing.
C11_Discovery ==
    gpc = "done" =>
        /\ Found = {i \in Known : dtypes[i].category \in Requested}
        /\ \A i \in Found : dtypes[i].category \notin {None, Unset}
        /\ Requested = {} => dresult.found = <<>>

\* C11 witness: of three loaded classes with category HubA, HubB and None,
\* the request for HubB returned the second alone.
C11_Witness ==
    /\ gpc = "done"
    /\ \A m \in ModuleIds : dloads[m]
    /\ drequest = "HubB"
    /\ dtypes[1].category = 1
    /\ dtypes[2].category = 2
    /\ dtypes[3].category = None
    /\ dresult.found = <<2>>

\* C13: collect_spokes does not fail when a module fails to load: the module
\* is skipped, nothing of it is returned, and every matching class of the
\* modules that load is returned.
C13_LoadFailureSkipped ==
    gpc = "done" =>
        /\ ~dresult.raised
        /\ \A i \in TypeIds :
               (dloads[dtypes[i].module] /\ dtypes[i].category \in Requested)
                   => i \in Found
        /\ \A i \in Found : dloads[dtypes[i].module]

\* C13 witness: the first module failed to load and held a matching class;
\* the matching class of the second module was returned.
C13_Witness ==
    /\ gpc = "done"
    /\ ~dloads[1]
    /\ dloads[2]
    /\ \E i, j \in TypeIds :
          /\ dtypes[i].module = 1
          /\ dtypes[i].category \in Requested
          /\ dtypes[j].module = 2
          /\ dtypes[j].category \in Requested
          /\ Found = {j}

====
